---- MODULE Spec2Model ----
(***************************************************************************)
(* mmv: mass move of files with interactive renaming.                      *)
(*                                                                         *)
(* Text is modelled as sequences of byte values, a file as the sequence of *)
(* its lines (what BufRead::lines yields and what writeln! writes), a path *)
(* as the pair <<directory, name>>.                                        *)
(***************************************************************************)
EXTENDS Integers, Sequences, FiniteSets, TLC

VARIABLES
    a_pc,       \* "format": a_in awaits formatting; "parse": a_line awaits parsing; "done"
    a_in,       \* Action handed to Display::fmt (NoAction when a raw line is parsed)
    a_line,     \* a line of text: the formatted action or a raw target line
    a_out,      \* Action parsed from a_line (NoAction before)
    fs,         \* the filesystem: path -> file (the sidecar files included)
    dirs,       \* the directories that exist
    pc,         \* "idle" between commands; inside execute "next", "mkdir", "copy", "remove"; "exit"
    cmd,        \* the command that ran last (or is running)
    result,     \* how it ended: "Ok", "NotInitialized", "NotClean", "InternalError"
    pre,        \* the filesystem as the command found it
    changeset,  \* the ChangeSetImport / ChangeSet the command holds in memory
    output,     \* what the command printed
    target,     \* execute: the destination directory
    idx,        \* execute: position in changeset.records().iter()
    held        \* execute: the source file as the current record found it

actionVars == <<a_pc, a_in, a_line, a_out>>
fileVars == <<fs, dirs>>
cmdVars == <<pc, cmd, result, pre, changeset, output, target, idx, held>>

vars == <<a_pc, a_in, a_line, a_out, fs, dirs, pc, cmd, result, pre, changeset,
          output, target, idx, held>>

(***************************************************************************)
(* Bounds                                                                  *)
(***************************************************************************)
MaxLineLen == 3     \* longest line / path / comment of the Action checks
MaxImportLines == 3 \* most lines of a sidecar file in the import checks
MaxTargetLines == 3 \* most lines the user leaves in the target list

(***************************************************************************)
(* Text                                                                    *)
(***************************************************************************)
Space == 32

\* the bytes text is made of here: space, tab, "a", "b"
Chars == {Space, 9, 97, 98}

\* "a", "b" and " a"
NameA == <<97>>
NameB == <<98>>
NameSpaceA == <<Space, 97>>

\* char::is_whitespace, on ASCII
IsWhitespace(c) == c \in {9, 10, 11, 12, 13, 32}

SeqsUpTo(S, n) == UNION {[1..k -> S] : k \in 0..n}

RECURSIVE TrimStart(_)
TrimStart(s) ==
    IF s = <<>> THEN <<>>
    ELSE IF IsWhitespace(Head(s)) THEN TrimStart(Tail(s))
    ELSE s

RECURSIVE TrimEnd(_)
TrimEnd(s) ==
    IF s = <<>> THEN <<>>
    ELSE IF IsWhitespace(s[Len(s)]) THEN TrimEnd(SubSeq(s, 1, Len(s) - 1))
    ELSE s

\* str::trim
Trim(s) == TrimEnd(TrimStart(s))

\* str::starts_with(char::is_whitespace)
StartsWithWhitespace(s) == s # <<>> /\ IsWhitespace(Head(s))

(***************************************************************************)
(* Action (changeset.rs)                                                   *)
(***************************************************************************)
Move(path) == [tag |-> "Move", arg |-> path]
Delete == [tag |-> "Delete", arg |-> <<>>]
Ignore(comment) == [tag |-> "Ignore", arg |-> comment]

\* impl From<S> for Action, with the two tests in the opposite order
ActionFromSwapped(s) ==
    IF StartsWithWhitespace(s) THEN Ignore(Trim(s))
    ELSE IF Trim(s) = <<>> THEN Delete
    ELSE Move(s)

\* impl From<S> for Action, trimming the path of a Move as well
ActionFromTrimmedPath(s) ==
    IF Trim(s) = <<>> THEN Delete
    ELSE IF StartsWithWhitespace(s) THEN Ignore(Trim(s))
    ELSE Move(Trim(s))

\* impl From<S> for Action: parse one line of the target list
ActionFrom(s) ==
    IF Trim(s) = <<>> THEN Delete
    ELSE IF StartsWithWhitespace(s) THEN Ignore(Trim(s))
    ELSE Move(s)

\* impl Display for Action, without the space that marks a comment
ActionFmtNoMarker(a) ==
    CASE a.tag = "Move" -> a.arg
      [] a.tag = "Delete" -> <<>>
      [] a.tag = "Ignore" -> a.arg

\* impl Display for Action: format as one line of the target list
ActionFmt(a) ==
    CASE a.tag = "Move" -> a.arg
      [] a.tag = "Delete" -> <<>>
      [] a.tag = "Ignore" -> <<Space>> \o a.arg

\* placeholder where no Action has been produced
NoAction == [tag |-> "None", arg |-> <<>>]

ActionLines == SeqsUpTo(Chars, MaxLineLen)

ActionValues ==
    {Delete} \cup {Move(p) : p \in ActionLines} \cup {Ignore(c) : c \in ActionLines}

(***************************************************************************)
(* Paths and files                                                         *)
(***************************************************************************)
\* Ord for Path: one component each here, compared as bytes
RECURSIVE PathLess(_, _)
PathLess(a, b) ==
    IF b = <<>> THEN FALSE
    ELSE IF a = <<>> THEN TRUE
    ELSE IF Head(a) # Head(b) THEN Head(a) < Head(b)
    ELSE PathLess(Tail(a), Tail(b))

\* the iteration order of a BTreeSet / BTreeMap over the keys S
RECURSIVE SortedSeq(_)
SortedSeq(S) ==
    IF S = {} THEN <<>>
    ELSE LET m == CHOOSE x \in S : \A y \in S \ {x} : PathLess(x, y)
         IN  <<m>> \o SortedSeq(S \ {m})

Range(q) == {q[i] : i \in 1..Len(q)}

EmptyMap == [k \in {} |-> NoAction]

\* BTreeMap::insert: a key already present gets the new value
Insert(m, k, v) ==
    [x \in DOMAIN m \cup {k} |-> IF x = k THEN v ELSE m[x]]

\* ".mmv.sources" and ".mmv.targets"
SourcesName == <<46, 109, 109, 118, 46, 115, 111, 117, 114, 99, 101, 115>>
TargetsName == <<46, 109, 109, 118, 46, 116, 97, 114, 103, 101, 116, 115>>
MmvPrefix == <<46, 109, 109, 118>>

WS == "ws"          \* the workspace directory
OUT == "out"        \* another directory
Roots == {WS, OUT}

\* Path::join of a directory and a relative one-component path
Join(root, name) == <<root, name>>

\* Workspace::sources_path / targets_path
SourcesPath == Join(WS, SourcesName)
TargetsPath == Join(WS, TargetsName)

NoFile == [exists |-> FALSE, lines |-> <<>>]
File(lines) == [exists |-> TRUE, lines |-> lines]

\* Workspace::open: both sidecar files are files
IsOpen(f) == f[SourcesPath].exists /\ f[TargetsPath].exists

(***************************************************************************)
(* ChangeSetImport (changeset.rs)                                          *)
(***************************************************************************)
EmptyImport ==
    [records |-> EmptyMap, unmapped_sources |-> <<>>, unmapped_targets |-> <<>>]

\* ChangeSetImport::import stopping once either file has run out
RECURSIVE ImportLoopZip(_, _, _, _)
ImportLoopZip(sources, targets, i, acc) ==
    IF i <= Len(sources) /\ i <= Len(targets)
    THEN ImportLoopZip(sources, targets, i + 1,
            [acc EXCEPT !.records = Insert(@, sources[i], ActionFrom(targets[i]))])
    ELSE acc

\* the loop of ChangeSetImport::import, from line i on
RECURSIVE ImportLoop(_, _, _, _)
ImportLoop(sources, targets, i, acc) ==
    IF i <= Len(sources) /\ i <= Len(targets)
    THEN ImportLoop(sources, targets, i + 1,
            [acc EXCEPT !.records = Insert(@, sources[i], ActionFrom(targets[i]))])
    ELSE IF i <= Len(sources)
    THEN ImportLoop(sources, targets, i + 1,
            [acc EXCEPT !.unmapped_sources = Append(@, sources[i])])
    ELSE IF i <= Len(targets)
    THEN ImportLoop(sources, targets, i + 1,
            [acc EXCEPT !.unmapped_targets = Append(@, ActionFrom(targets[i]))])
    ELSE acc

\* ChangeSetImport::import: pair the lines of the two sidecar files by index
Import(f) == ImportLoop(f[SourcesPath].lines, f[TargetsPath].lines, 1, EmptyImport)

\* ChangeSetImport::is_clean looking at the unmapped sources alone
IsCleanSourcesOnly(imp) == imp.unmapped_sources = <<>>

\* ChangeSetImport::is_clean
IsClean(imp) == imp.unmapped_sources = <<>> /\ imp.unmapped_targets = <<>>

(***************************************************************************)
(* The workspace and the commands that only read it                        *)
(***************************************************************************)
\* the files the tree may hold: "a", "b", " a"
TreeNames == {NameA, NameB, NameSpaceA}

Names == TreeNames \cup {SourcesName, TargetsName}

FsPaths == {Join(r, n) : r \in Roots, n \in Names}

EmptyFs == [p \in FsPaths |-> NoFile]

\* a file of the tree holds one line, its own name: no two files hold the same bytes
Original(name) == File(<<name>>)

Clean == "Workspace is clean"
NotCleanText == "Workspace is not clean"

InitIdle ==
    /\ pc = "idle"
    /\ cmd = "none"
    /\ result = "none"
    /\ pre = EmptyFs
    /\ changeset = EmptyImport
    /\ output = <<>>
    /\ target = WS
    /\ idx = 0
    /\ held = NoFile

InitNoAction ==
    /\ a_pc = "done"
    /\ a_in = NoAction
    /\ a_line = <<>>
    /\ a_out = NoAction

InitWorkspaceIdle ==
    /\ fs = EmptyFs
    /\ dirs = {WS}
    /\ InitIdle

\* status (main.rs) / commands/status.rs run
Status ==
    /\ pc = "idle"
    /\ cmd' = "status"
    /\ pre' = fs
    /\ IF ~IsOpen(fs)
       THEN /\ result' = "NotInitialized"
            /\ changeset' = EmptyImport
            /\ output' = <<>>
       ELSE /\ result' = "Ok"
            /\ changeset' = Import(fs)
            /\ output' = <<IF IsClean(Import(fs)) THEN Clean ELSE NotCleanText>>
    /\ UNCHANGED <<pc, target, idx, held, fileVars, actionVars>>

(***************************************************************************)
(* Spec: the commands on a workspace (main.rs)                             *)
(***************************************************************************)
\* str::starts_with
HasPrefix(s, p) == Len(s) >= Len(p) /\ SubSeq(s, 1, Len(p)) = p

\* scan_tree: the files under the workspace that are no mmv status files, in
\* WalkDir's order (sorted by file name)
ScanTree(f) ==
    SortedSeq({n \in Names : f[Join(WS, n)].exists /\ ~HasPrefix(n, MmvPrefix)})

\* ChangeSet::export: one line per record to each sidecar file, in key order
Export(f, records) ==
    LET keys == SortedSeq(DOMAIN records)
    IN  [f EXCEPT ![SourcesPath] = File(keys),
                  ![TargetsPath] = File([i \in 1..Len(keys) |-> ActionFmt(records[keys[i]])])]

\* Iterator::collect into a BTreeMap
RECURSIVE Collect(_)
Collect(pairs) ==
    IF pairs = <<>> THEN EmptyMap
    ELSE Insert(Collect(SubSeq(pairs, 1, Len(pairs) - 1)),
                pairs[Len(pairs)][1], pairs[Len(pairs)][2])

\* the records init writes: every scanned path with Ignore(its display text)
InitRecords(f) ==
    LET tree == ScanTree(f)
    IN  Collect([i \in 1..Len(tree) |-> <<tree[i], Ignore(tree[i])>>])

\* init (main.rs), the function main dispatches the init subcommand to: it reads
\* no flag and asks nothing about the sidecar files before it writes them
InitCmd ==
    /\ pc = "idle"
    /\ cmd' = "init"
    /\ pre' = fs
    /\ result' = "Ok"
    /\ output' = <<"Initialized">>
    /\ changeset' = [EmptyImport EXCEPT !.records = InitRecords(fs)]
    /\ fs' = Export(fs, InitRecords(fs))
    /\ UNCHANGED <<pc, target, idx, held, dirs, actionVars>>

\* Itertools::merge_join_by of two sequences both taken to be ascending
RECURSIVE MergeJoinBy(_, _)
MergeJoinBy(left, right) ==
    IF left = <<>> /\ right = <<>> THEN <<>>
    ELSE IF right = <<>> THEN <<<<"Left", Head(left)>>>> \o MergeJoinBy(Tail(left), right)
    ELSE IF left = <<>> THEN <<<<"Right", Head(right)>>>> \o MergeJoinBy(left, Tail(right))
    ELSE IF PathLess(Head(left), Head(right))
         THEN <<<<"Left", Head(left)>>>> \o MergeJoinBy(Tail(left), right)
    ELSE IF PathLess(Head(right), Head(left))
         THEN <<<<"Right", Head(right)>>>> \o MergeJoinBy(left, Tail(right))
    ELSE <<<<"Both", Head(right)>>>> \o MergeJoinBy(Tail(left), Tail(right))

\* the filter_map of update resetting the action of a path found in both
RECURSIVE ReconcileReset(_, _)
ReconcileReset(diff, records) ==
    IF diff = <<>> THEN <<>>
    ELSE LET d == Head(diff)
             rest == ReconcileReset(Tail(diff), records)
         IN  IF d[1] = "Right" THEN rest
             ELSE <<<<d[2], Ignore(d[2])>>>> \o rest

\* the filter_map of update: the pairs the new mapping is collected from
RECURSIVE Reconcile(_, _)
Reconcile(diff, records) ==
    IF diff = <<>> THEN <<>>
    ELSE LET d == Head(diff)
             rest == Reconcile(Tail(diff), records)
         IN  CASE d[1] = "Left" -> <<<<d[2], Ignore(d[2])>>>> \o rest
               [] d[1] = "Right" -> rest
               [] d[1] = "Both" -> <<<<d[2], records[d[2]]>>>> \o rest

\* the filter_map of update: what it prints, "+" for an addition, "-" for a removal
RECURSIVE Report(_)
Report(diff) ==
    IF diff = <<>> THEN <<>>
    ELSE LET d == Head(diff)
         IN  CASE d[1] = "Left" -> <<<<"+", d[2]>>>> \o Report(Tail(diff))
               [] d[1] = "Right" -> <<<<"-", d[2]>>>> \o Report(Tail(diff))
               [] d[1] = "Both" -> Report(Tail(diff))

\* update: the difference between the tree and the records of a clean changeset
UpdateDiff(f) ==
    LET records == Import(f).records
        tree == SortedSeq(Range(ScanTree(f)))
    IN  MergeJoinBy(tree, SortedSeq(DOMAIN records))

\* update (main.rs) / commands/update.rs run
Update ==
    /\ pc = "idle"
    /\ cmd' = "update"
    /\ pre' = fs
    /\ IF ~IsOpen(fs)
       THEN /\ result' = "NotInitialized"
            /\ UNCHANGED <<fs, changeset, output>>
       ELSE IF ~IsClean(Import(fs))
       THEN /\ result' = "NotClean"
            /\ UNCHANGED <<fs, changeset, output>>
       ELSE LET records == Collect(Reconcile(UpdateDiff(fs), Import(fs).records))
            IN  /\ result' = "Ok"
                /\ output' = Report(UpdateDiff(fs))
                /\ changeset' = [EmptyImport EXCEPT !.records = records]
                /\ fs' = Export(fs, records)
    /\ UNCHANGED <<pc, target, idx, held, dirs, actionVars>>

\* what the user types on a line of the target list: nothing (delete), "a"
\* (move to a), ".mmv.targets" (move to a file of that name)
TypedLines == {<<>>, NameA, TargetsName}

ResetCmd ==
    /\ cmd' = "none"
    /\ result' = "none"
    /\ pre' = EmptyFs
    /\ changeset' = EmptyImport
    /\ output' = <<>>

\* edit: the user changes a line of the target list in the editor, removes its
\* last line or adds one (the source list is opened read-only)
Edit ==
    /\ pc = "idle"
    /\ IsOpen(fs)
    /\ LET lines == fs[TargetsPath].lines
       IN  \/ \E i \in 1..Len(lines), l \in TypedLines :
                fs' = [fs EXCEPT ![TargetsPath] = File([lines EXCEPT ![i] = l])]
           \/ /\ lines # <<>>
              /\ fs' = [fs EXCEPT ![TargetsPath] = File(SubSeq(lines, 1, Len(lines) - 1))]
           \/ /\ Len(lines) < MaxTargetLines
              /\ \E l \in TypedLines :
                   fs' = [fs EXCEPT ![TargetsPath] = File(Append(lines, l))]
    /\ ResetCmd
    /\ UNCHANGED <<pc, target, idx, held, dirs, actionVars>>

\* between two commands a file appears in the tree or disappears from it
TreeChange ==
    /\ pc = "idle"
    /\ \E n \in TreeNames :
         fs' = [fs EXCEPT ![Join(WS, n)] = IF @.exists THEN NoFile ELSE Original(n)]
    /\ ResetCmd
    /\ UNCHANGED <<pc, target, idx, held, dirs, actionVars>>

\* between two commands the user removes a sidecar file
LoseSidecar ==
    /\ pc = "idle"
    /\ \E p \in {SourcesPath, TargetsPath} :
         /\ fs[p].exists
         /\ fs' = [fs EXCEPT ![p] = NoFile]
    /\ ResetCmd
    /\ UNCHANGED <<pc, target, idx, held, dirs, actionVars>>

(***************************************************************************)
(* execute (main.rs), one step per file operation                          *)
(***************************************************************************)
\* changeset.records().iter(): the keys in order
Keys == SortedSeq(DOMAIN changeset.records)

\* the record the loop is at
Key == Keys[idx]
Act == changeset.records[Key]

\* changeset.path().join(&source) and target.join(path)
SourceOf(key) == Join(WS, key)
Source == SourceOf(Key)
Dest == Join(target, Act.arg)

\* execute up to the loop: open, import, clean
ExecuteStart ==
    /\ pc = "idle"
    /\ \E root \in Roots : target' = root
    /\ cmd' = "execute"
    /\ pre' = fs
    /\ output' = <<>>
    /\ held' = NoFile
    /\ IF ~IsOpen(fs)
       THEN /\ result' = "NotInitialized"
            /\ changeset' = EmptyImport
            /\ UNCHANGED <<pc, idx>>
       ELSE IF ~IsClean(Import(fs))
       THEN /\ result' = "NotClean"
            /\ changeset' = EmptyImport
            /\ UNCHANGED <<pc, idx>>
       ELSE /\ result' = "running"
            /\ changeset' = Import(fs)
            /\ pc' = "next"
            /\ idx' = 1
    /\ UNCHANGED <<fileVars, actionVars>>

\* the head of the loop: the next record, or the end
ExecNext ==
    /\ pc = "next"
    /\ IF idx > Len(Keys)
       THEN /\ pc' = "exit"
            /\ result' = "Ok"
            /\ UNCHANGED <<idx, held>>
       ELSE /\ held' = fs[Source]
            /\ CASE Act.tag = "Move" -> pc' = "mkdir" /\ idx' = idx
                 [] Act.tag = "Delete" -> pc' = "remove" /\ idx' = idx
                 [] Act.tag = "Ignore" -> pc' = "next" /\ idx' = idx + 1
            /\ UNCHANGED result
    /\ UNCHANGED <<cmd, pre, changeset, output, target, fileVars, actionVars>>

\* the ? of a failed file operation: the error goes up to main, which reports it
Abort(operation) ==
    /\ pc' = "exit"
    /\ result' = "InternalError"
    /\ output' = <<operation>>
    /\ UNCHANGED <<cmd, pre, changeset, target, idx, held, actionVars>>

Continue(next) ==
    /\ pc' = next
    /\ UNCHANGED <<cmd, result, pre, changeset, output, target, held, actionVars>>

\* std::fs::create_dir_all(parent)
ExecCreateDir ==
    /\ pc = "mkdir"
    /\ \/ /\ dirs' = dirs \cup {target}
          /\ Continue("copy")
          /\ UNCHANGED <<fs, idx>>
       \/ /\ Abort("create_dir_all")
          /\ UNCHANGED <<fs, dirs>>

\* reflink::reflink_or_copy done: a destination that exists makes the reflink
\* fail, and std::fs::copy truncates the destination before it reads the source
Copied(f, from, to) ==
    [f EXCEPT ![to] = IF from = to THEN File(<<>>) ELSE f[from]]

\* reflink::reflink_or_copy(&source, &target)
ExecCopy ==
    /\ pc = "copy"
    /\ \/ /\ fs[Source].exists
          /\ fs' = Copied(fs, Source, Dest)
          /\ Continue("remove")
          /\ UNCHANGED <<dirs, idx>>
       \/ \* the copy fails before the destination is opened
          /\ Abort("reflink_or_copy")
          /\ UNCHANGED <<fs, dirs>>
       \/ \* the copy fails after std::fs::copy has opened (truncated) the destination
          /\ fs[Source].exists
          /\ fs' = [fs EXCEPT ![Dest] = File(<<>>)]
          /\ Abort("reflink_or_copy")
          /\ UNCHANGED dirs

\* std::fs::remove_file(&source)
ExecRemove ==
    /\ pc = "remove"
    /\ \/ /\ fs[Source].exists
          /\ fs' = [fs EXCEPT ![Source] = NoFile]
          /\ idx' = idx + 1
          /\ Continue("next")
          /\ UNCHANGED dirs
       \/ /\ Abort("remove_file")
          /\ UNCHANGED <<fs, dirs>>

InitSpec ==
    /\ InitNoAction
    /\ InitIdle
    /\ dirs = {WS}
    /\ \E tree \in SUBSET TreeNames :
         fs = [p \in FsPaths |->
                 IF p[1] = WS /\ p[2] \in tree THEN Original(p[2]) ELSE NoFile]

Next ==
    \/ InitCmd
    \/ Update
    \/ Status
    \/ Edit
    \/ TreeChange
    \/ LoseSidecar
    \/ ExecuteStart
    \/ ExecNext
    \/ ExecCreateDir
    \/ ExecCopy
    \/ ExecRemove

Spec == InitSpec /\ [][Next]_vars

(***************************************************************************)
(* SpecImport: status on sidecar files of any content                      *)
(***************************************************************************)
ImportSourceLines == {<<>>, NameA, NameB}
ImportTargetLines == {<<>>, NameA, NameSpaceA}

InitImport ==
    /\ InitNoAction
    /\ InitIdle
    /\ dirs = {WS}
    /\ \E sources \in SeqsUpTo(ImportSourceLines, MaxImportLines),
          targets \in SeqsUpTo(ImportTargetLines, MaxImportLines) :
            fs = [EmptyFs EXCEPT ![SourcesPath] = File(sources),
                                 ![TargetsPath] = File(targets)]

NextImport == Status

SpecImport == InitImport /\ [][NextImport]_vars

(***************************************************************************)
(* SpecAction: format an action and parse the line, or parse a raw line    *)
(***************************************************************************)
InitAction ==
    /\ InitWorkspaceIdle
    /\ a_out = NoAction
    /\ \/ a_pc = "format" /\ a_in \in ActionValues /\ a_line = <<>>
       \/ a_pc = "parse" /\ a_in = NoAction /\ a_line \in ActionLines

Format ==
    /\ a_pc = "format"
    /\ a_line' = ActionFmt(a_in)
    /\ a_pc' = "parse"
    /\ UNCHANGED <<a_in, a_out, fileVars, cmdVars>>

Parse ==
    /\ a_pc = "parse"
    /\ a_out' = ActionFrom(a_line)
    /\ a_pc' = "done"
    /\ UNCHANGED <<a_in, a_line, fileVars, cmdVars>>

NextAction == Format \/ Parse

SpecAction == InitAction /\ [][NextAction]_vars

(***************************************************************************)
(* Claims about Action, checked under SpecAction                           *)
(***************************************************************************)

\* The actions a line can stand for: Delete, a Move whose path is not empty and
\* does not start with whitespace, an Ignore whose comment is not empty and has
\* no whitespace at either end.
Representable(a) ==
    \/ a = Delete
    \/ a.tag = "Move" /\ a.arg # <<>> /\ ~IsWhitespace(a.arg[1])
    \/ a.tag = "Ignore" /\ a.arg # <<>> /\ ~IsWhitespace(a.arg[1])
                        /\ ~IsWhitespace(a.arg[Len(a.arg)])

\* C3 as stated: for every Action a of the three variants, parsing the line that
\* formatting a produces gives a back.
C3_RoundTripEveryAction ==
    (a_pc = "done" /\ a_in # NoAction) => a_out = a_in

\* C3 amended: parsing the formatted line gives the action back exactly when the
\* action is Delete, a Move whose path is non-empty and does not start with
\* whitespace, or an Ignore whose comment is non-empty with no whitespace at
\* either end.
C3_RoundTripRepresentable ==
    (a_pc = "done" /\ a_in # NoAction) => (a_out = a_in <=> Representable(a_in))

C3_Witness ==
    /\ a_pc = "done"
    /\ a_in = Ignore(<<97, Space, 98>>)
    /\ a_line = <<Space, 97, Space, 98>>
    /\ a_out = a_in

\* C8 as stated: Ignore("") formats to one space, that line parses to Ignore("")
\* and not to Delete, and the line of zero characters parses to Delete.
C8_EmptyCommentIsIgnore ==
    /\ (a_pc # "format" /\ a_in = Ignore(<<>>)) => a_line = <<Space>>
    /\ (a_pc = "done" /\ a_line = <<Space>>) => a_out = Ignore(<<>>)
    /\ (a_pc = "done" /\ a_line = <<>>) => a_out = Delete

\* C8 amended: Ignore("") formats to one space, and that one-space line parses
\* to Delete, as the line of zero characters does.
C8_EmptyCommentIsDelete ==
    /\ (a_pc # "format" /\ a_in = Ignore(<<>>)) => a_line = <<Space>>
    /\ (a_pc = "done" /\ a_line = <<Space>>) => a_out = Delete
    /\ (a_pc = "done" /\ a_line = <<>>) => a_out = Delete

C8_Witness ==
    a_pc = "done" /\ a_in = Ignore(<<>>) /\ a_line = <<Space>> /\ a_out = Delete

OnlyWhitespace(l) == \A i \in 1..Len(l) : IsWhitespace(l[i])
FirstText(l) == CHOOSE i \in 1..Len(l) :
    ~IsWhitespace(l[i]) /\ \A j \in 1..(i - 1) : IsWhitespace(l[j])
LastText(l) == CHOOSE i \in 1..Len(l) :
    ~IsWhitespace(l[i]) /\ \A j \in (i + 1)..Len(l) : IsWhitespace(l[j])

\* C9: a line of nothing but whitespace parses to Delete; any other line whose
\* first character is whitespace parses to Ignore of the line without its
\* leading and trailing whitespace; every remaining line parses to Move of the
\* raw, untrimmed line.
C9_ParseRule ==
    a_pc = "done" =>
        IF OnlyWhitespace(a_line) THEN a_out = Delete
        ELSE IF IsWhitespace(a_line[1])
             THEN /\ a_out.tag = "Ignore"
                  /\ a_out.arg = SubSeq(a_line, FirstText(a_line), LastText(a_line))
             ELSE a_out.tag = "Move" /\ a_out.arg = a_line

C9_Witness ==
    /\ a_pc = "done"
    /\ a_in = NoAction
    /\ a_line = <<97, Space>>
    /\ a_out = Move(<<97, Space>>)

(***************************************************************************)
(* Claims about import, checked under SpecImport                           *)
(***************************************************************************)
LastLineOf(sources, n, k) == CHOOSE i \in 1..n :
    sources[i] = k /\ \A j \in (i + 1)..n : sources[j] # k

\* C4: import pairs the two sidecar files by line index. With equal line counts
\* N the mapping has at most N entries, each source path mapped to the action of
\* the last line that names it, both overflow lists are empty and the import is
\* clean; with M < N lines the longer file's overflow list has exactly N - M
\* entries (its lines after the M-th), the other list is empty and the import is
\* not clean.
C4_ImportPairsByLine ==
    (cmd = "status" /\ result = "Ok") =>
        LET sources == pre[SourcesPath].lines
            targets == pre[TargetsPath].lines
            N == Len(sources)
            M == Len(targets)
            paired == IF N < M THEN N ELSE M
        IN  /\ DOMAIN changeset.records = {sources[i] : i \in 1..paired}
            /\ \A k \in DOMAIN changeset.records :
                 changeset.records[k] = ActionFrom(targets[LastLineOf(sources, paired, k)])
            /\ N = M => /\ Cardinality(DOMAIN changeset.records) <= N
                        /\ changeset.unmapped_sources = <<>>
                        /\ changeset.unmapped_targets = <<>>
                        /\ output = <<Clean>>
            /\ N > M => /\ Len(changeset.unmapped_sources) = N - M
                        /\ changeset.unmapped_sources = SubSeq(sources, M + 1, N)
                        /\ changeset.unmapped_targets = <<>>
                        /\ output = <<NotCleanText>>
            /\ N < M => /\ Len(changeset.unmapped_targets) = M - N
                        /\ changeset.unmapped_targets =
                             [i \in 1..(M - N) |-> ActionFrom(targets[N + i])]
                        /\ changeset.unmapped_sources = <<>>
                        /\ output = <<NotCleanText>>

C4_Witness ==
    /\ cmd = "status"
    /\ result = "Ok"
    /\ Len(pre[SourcesPath].lines) = 3
    /\ Len(pre[TargetsPath].lines) = 1
    /\ Len(changeset.unmapped_sources) = 2
    /\ output = <<NotCleanText>>

(***************************************************************************)
(* Claims about update and execute, checked under Spec                     *)
(***************************************************************************)
\* the files of the tree the command found, sidecar files aside
TreeOf(f) == {n \in Names : f[Join(WS, n)].exists /\ n \notin {SourcesName, TargetsName}}

Printed(sign) == {output[i][2] : i \in {j \in 1..Len(output) : output[j][1] = sign}}

\* C2: update on a clean changeset M and a tree T produces a mapping whose keys
\* are exactly T; a path in both keeps M's action, a path only in T gets
\* Ignore(its display text) and is printed as added, a path only in M is dropped
\* and printed as removed; nothing else is printed and no path is printed twice.
C2_UpdateReconciles ==
    (cmd = "update" /\ result = "Ok") =>
        LET M == Import(pre).records
            T == TreeOf(pre)
            R == changeset.records
        IN  /\ DOMAIN R = T
            /\ \A p \in T \cap DOMAIN M : R[p] = M[p]
            /\ \A p \in T \ DOMAIN M : R[p] = Ignore(p)
            /\ Printed("+") = T \ DOMAIN M
            /\ Printed("-") = DOMAIN M \ T
            /\ Printed("+") \cap Printed("-") = {}
            /\ Len(output) = Cardinality(T \ DOMAIN M) + Cardinality(DOMAIN M \ T)

C2_Witness ==
    /\ cmd = "update"
    /\ result = "Ok"
    /\ Printed("+") = {NameSpaceA}
    /\ Printed("-") = {NameB}
    /\ DOMAIN changeset.records = {NameA, NameSpaceA}
    /\ changeset.records[NameA] = Move(NameA)

\* C5: update and execute answer NotInitialized whenever a sidecar file is
\* missing and NotClean whenever both exist with unequal line counts, and in both
\* cases no file and no directory has been created, changed or removed.
C5_RefuseBeforeActing ==
    cmd \in {"update", "execute"} =>
        /\ ~(pre[SourcesPath].exists /\ pre[TargetsPath].exists)
             => result = "NotInitialized"
        /\ (/\ pre[SourcesPath].exists
            /\ pre[TargetsPath].exists
            /\ Len(pre[SourcesPath].lines) # Len(pre[TargetsPath].lines))
             => result = "NotClean"
        /\ result \in {"NotInitialized", "NotClean"} => (fs = pre /\ dirs = {WS} /\ pc = "idle")

C5_Witness ==
    /\ cmd = "execute"
    /\ result = "NotClean"
    /\ Len(pre[SourcesPath].lines) = 3
    /\ Len(pre[TargetsPath].lines) = 2
    /\ TreeOf(pre) = TreeNames
    /\ fs = pre

\* C7 as stated: an update that follows a successful update, with nothing
\* changed in between, leaves both sidecar files as the first update wrote them.
C7_UpdateTwiceSameFiles ==
    [][(/\ cmd = "update" /\ result = "Ok"
        /\ cmd' = "update" /\ result' = "Ok"
        /\ pre' = fs)
       => (fs'[SourcesPath] = fs[SourcesPath] /\ fs'[TargetsPath] = fs[TargetsPath])]_vars

InExecute == cmd = "execute" /\ pc # "idle"
AtRecord == InExecute /\ idx \in 1..Len(Keys)

\* C1 as stated: for a Move record the copy is complete before the removal
\* starts, and when execute fails in the copy or between copy and removal the
\* source file is as the record found it.
C1_SourceIntactUntilRemoved ==
    (AtRecord /\ Act.tag = "Move") =>
        /\ pc = "remove" => (fs[Source] = held /\ fs[Dest] = held)
        /\ (/\ pc = "exit"
            /\ result = "InternalError"
            /\ output \in {<<"reflink_or_copy">>, <<"remove_file">>})
             => fs[Source] = held

\* C6 as stated: when a file operation fails, every Move or Delete record before
\* the failing one has its source gone (and a Move its destination there), the
\* source file of every record after it is as execute found it, and both
\* sidecar files are as execute found them.
C6_StopsAtFirstFailure ==
    (InExecute /\ pc = "exit" /\ result = "InternalError") =>
        /\ \A j \in 1..(idx - 1) :
             LET a == changeset.records[Keys[j]]
             IN  /\ a.tag \in {"Move", "Delete"} => ~fs[SourceOf(Keys[j])].exists
                 /\ a.tag = "Move" => fs[Join(target, a.arg)].exists
        /\ \A j \in (idx + 1)..Len(Keys) :
             fs[SourceOf(Keys[j])] = pre[SourceOf(Keys[j])]
        /\ fs[SourcesPath] = pre[SourcesPath]
        /\ fs[TargetsPath] = pre[TargetsPath]

\* C10 as stated: whatever the changeset and the destination, after execute both
\* sidecar files are as execute found them.
C10_SidecarsUntouched ==
    (InExecute /\ pc = "exit") =>
        (fs[SourcesPath] = pre[SourcesPath] /\ fs[TargetsPath] = pre[TargetsPath])

\* C11 as stated: init run without a force flag on a workspace whose two sidecar
\* files both exist leaves both sidecar files as they were.
C11_InitKeepsInitialized ==
    (cmd = "init" /\ result = "Ok" /\ IsOpen(pre)) =>
        (fs[SourcesPath] = pre[SourcesPath] /\ fs[TargetsPath] = pre[TargetsPath])

\* C12 as stated: when execute has completed successfully, the destination of
\* every Move record holds the bytes its source held before execute began, and
\* every file of an Ignore record still exists with the bytes it had.
C12_ExecutePreservesContent ==
    (InExecute /\ pc = "exit" /\ result = "Ok") =>
        \A k \in DOMAIN changeset.records :
            LET act == changeset.records[k]
            IN  /\ act.tag = "Move" =>
                     fs[Join(target, act.arg)] = pre[SourceOf(k)]
                /\ (act.tag = "Ignore" /\ pre[SourceOf(k)].exists) =>
                     fs[SourceOf(k)] = pre[SourceOf(k)]

====
